---- MODULE Spec2Model ----
(***************************************************************************)
(* A state-machine model of mr_eleven_stream (src/src/mr_eleven_stream/    *)
(* mod.py): the streaming adapter ElevenLabsStreamer.stream_text_to_speech,*)
(* the stream_tts service, the speak command and _play_audio_locally.      *)
(*                                                                         *)
(* Python values are modelled as tuples.  A str is the tuple of its        *)
(* characters (one-character strings), a bytes object is the tuple of its  *)
(* byte values, None is the tuple NoneVal where a str is expected and the  *)
(* tuple NoneBuf where a bytes object is expected.                         *)
(*                                                                         *)
(* One request runs at a time on one cooperative task; pc is the position  *)
(* of that task.  The host (other tasks of the event loop) can change the  *)
(* service registry only while the request is suspended in an await or in  *)
(* the hands of an external consumer.                                      *)
(***************************************************************************)
EXTENDS Integers, Sequences, FiniteSets, TLC

(***************************************************************************)
(* Bounds of the model.                                                    *)
(***************************************************************************)
\* the longest vendor stream: items read from audio_stream in one call
MaxItems == 3
\* the longest vendor stream of an overlapping call
MaxOtherItems == 2

(***************************************************************************)
(* Python values.                                                          *)
(***************************************************************************)
\* None where a str is expected: no str holds a four-character atom
NoneVal == <<"None">>
\* None where a bytes object is expected: no bytes object holds -1
NoneBuf == <<-1>>
\* the truth value of a str-or-None value (None and '' are falsy)
Truthy(v) == v /= NoneVal /\ v /= <<>>
\* Python's `a or b` on str-or-None values
Or(a, b) == IF Truthy(a) THEN a ELSE b
\* the truth value of a bytes-or-None value (None and b'' are falsy)
TruthyBuf(b) == b /= NoneBuf /\ b /= <<>>

\* str.lower(), on the letters the format tags use
LowerChar(c) ==
    CASE c = "U" -> "u" [] c = "L" -> "l" [] c = "A" -> "a" [] c = "W" -> "w"
      [] c = "M" -> "m" [] c = "P" -> "p" [] c = "C" -> "c" [] c = "O" -> "o"
      [] c = "S" -> "s" [] OTHER -> c
Lower(s) == [i \in 1..Len(s) |-> LowerChar(s[i])]
\* Python's `sub in s` on strs
Contains(sub, s) ==
    \E i \in 1..(Len(s) - Len(sub) + 1) : SubSeq(s, i, i + Len(sub) - 1) = sub

(***************************************************************************)
(* Module constants of mod.py.                                             *)
(***************************************************************************)
DEFAULT_VOICE_ID == <<"J","B","F","q","n","C","B","s","d","6","R","M","k","j","V",
                      "D","R","Z","z","b">>
DEFAULT_OUTPUT_FORMAT == <<"u","l","a","w","_","8","0","0","0">>
\* the format stream_text_to_speech forces in local mode
LOCAL_OUTPUT_FORMAT == <<"m","p","3","_","2","2","0","5","0","_","3","2">>
WARNING_TEXT == "SYSTEM: WARNING - Command interrupted!\n\n"
\* speak: chunk_duration = len(chunk) / 8000.0
BytesPerSecond == 8000
\* speak: to_wait = chunk_duration * 0.98, as a percentage
PacePercent == 98
\* speak: `if chunk_count < 3` after the sink asked to stop
EarlyStopChunks == 3
\* sleep durations are counted in half microseconds
TicksPerSecond == 2 * 1000 * 1000
\* asyncio.sleep(1.0) after the sink asked to stop
StopSleep == TicksPerSecond
\* asyncio.sleep(0.25) at the end of a remote speak
FinalSleep == TicksPerSecond \div 4
\* a sleep of the whole duration of the chunk
ToWaitWholeChunk(c) == (Len(c) * TicksPerSecond) \div BytesPerSecond
\* to_wait for a chunk
ToWait(c) == (Len(c) * TicksPerSecond * PacePercent) \div (BytesPerSecond * 100)

\* lines 17-19, in hundredths, in a process without the three
\* ELEVENLABS_*_DEFAULT variables in its environment
SIMILARITY_BOOST_DEFAULT == 75
SPEECH_SPEED_DEFAULT == 100
STABILITY_DEFAULT == 50
\* lines 170-172: the voice settings of a call that gives none
DefaultSettings == [stability |-> STABILITY_DEFAULT,
                    similarity_boost |-> SIMILARITY_BOOST_DEFAULT,
                    speed |-> SPEECH_SPEED_DEFAULT]

(***************************************************************************)
(* Inputs.                                                                 *)
(***************************************************************************)
\* the stability, similarity_boost and speed a caller gives, in hundredths
SettingsSet == [stability : {STABILITY_DEFAULT, 90},
                similarity_boost : {SIMILARITY_BOOST_DEFAULT, 30},
                speed : {SPEECH_SPEED_DEFAULT, 120}]
PCM_16000 == <<"p","c","m","_","1","6","0","0","0">>
PCM_UPPER == <<"P","C","M","_","4","4","1","0","0">>
OPUS_48000 == <<"o","p","u","s","_","4","8","0","0","0">>
PCM_24000 == <<"p","c","m","_","2","4","0","0","0">>
PCM_8000 == <<"p","c","m","_","8","0","0","0">>
\* tags that name two codecs or two rates
MP3_ULAW == <<"m","p","3","_","u","l","a","w">>
PCM_MP3 == <<"p","c","m","_","m","p","3">>
PCM_TWO_RATES == <<"p","c","m","_","2","4","0","0","0","_","1","6","0","0","0">>
\* the format tags a direct caller of _play_audio_locally passes
FormatTags == {DEFAULT_OUTPUT_FORMAT, LOCAL_OUTPUT_FORMAT, PCM_16000, PCM_UPPER,
               OPUS_48000, PCM_24000, PCM_8000, MP3_ULAW, PCM_MP3, PCM_TWO_RATES}
\* the output_format argument of stream_tts: None, '' or a tag
FormatArgs == {NoneVal, <<>>, DEFAULT_OUTPUT_FORMAT, PCM_16000}
\* what service_manager.functions holds for 'sip_audio_out_chunk': no key,
\* the value None, another falsy value (an empty provider list), a provider
SinkEntries == {"absent", "None", "falsy", "callable"}
\* functions.get('sip_audio_out_chunk', None): the value held, None without a key
FunctionsGet(f) == IF f = "absent" THEN "None" ELSE f
\* the truth value of what the registry holds (None and an empty list are falsy)
ValueTruthy(v) == v \notin {"None", "falsy"}
\* os.getenv('ELEVENLABS_API_KEY'): None, '' or a key
EnvKeys == {NoneVal, <<>>, <<"k">>}
\* the byte chunks a vendor stream yields
ChunkSet == {<<>>, <<1>>, <<2, 3>>}
\* the items of a vendor stream: bytes objects and one object of another type
Items == [is_bytes : {TRUE}, data : ChunkSet] \cup {[is_bytes |-> FALSE, data |-> <<9>>]}
\* audio buffers handed to _play_audio_locally by a direct caller
AudioBuffers == {<<>>, <<1, 2, 3>>}
\* the voice_id argument of speak: None or a voice id
VoiceArgs == {NoneVal, <<"v","1">>}
\* the voice_id a persona holds
PERSONA_VOICE_ID == <<"p","1">>
\* how the persona lookup of speak ends: it raises (no context, no agent, no
\* 'persona' key), or it gives a persona with or without a 'voice_id'
PersonaOutcomes == {"raises", "no_voice_id", "has_voice_id"}
\* os.getenv('MR_TTS_PLAY_LOCAL'): None, or one of the values the docstrings name
PlayLocalValues == {NoneVal, <<"1">>, <<"t","r","u","e">>, <<"y","e","s">>, <<"o","n">>}
\* the chunks the vendor stream of an overlapping call yields
OtherChunk == <<7>>

(***************************************************************************)
(* State.                                                                  *)
(***************************************************************************)
VARIABLES
    functions,              \* service_manager.functions['sip_audio_out_chunk']
    env_key,                \* os.getenv('ELEVENLABS_API_KEY')
    streamer,               \* the global _streamer: "None" or "instance"
    constructed,            \* how many ElevenLabsStreamer objects were constructed
    local_playback_enabled, \* _streamer.local_playback_enabled
    pc,                     \* position of the request's task
    entry,                  \* the operation called: speak, stream_tts, play
    req_format,             \* stream_tts: the output_format argument
    output_format,          \* stream_text_to_speech: output_format
    stream_reqs,            \* output_format of each client.text_to_speech.stream call
    items_read,             \* the items read from audio_stream, in order
    chunk,                  \* the chunk in hand
    local_audio_buffer,     \* stream_text_to_speech: local_audio_buffer
    yielded,                \* the chunks the consumer of stream_tts received
    result,                 \* what the caller of the operation got
    raised,                 \* the exception that left stream_tts
    vendor_raised,          \* the vendor client raised, at the request or at an item
    local_playback,         \* speak: local_playback
    chunk_count,            \* speak: chunk_count
    should_continue,        \* speak: should_continue
    sink_log,               \* the sip_audio_out_chunk calls and their outcomes
    sleeps,                 \* the asyncio.sleep calls of speak, in ticks
    audio_data,             \* _play_audio_locally: audio_data
    play_format,            \* _play_audio_locally: output_format
    plays,                  \* the _play_audio_locally invocations
    mech_log,               \* the mechanisms tried by the running _play_audio_locally
    voice_id,               \* speak: the voice_id argument
    persona,                \* speak: how the persona lookup ended
    voiceid,                \* speak: voiceid, the voice passed to stream_tts
    env_play_local,         \* os.getenv('MR_TTS_PLAY_LOCAL')
    o_pc,                   \* an overlapping stream_text_to_speech call: its position
    o_buffer,               \* the overlapping call: local_audio_buffer
    o_yielded,              \* the overlapping call: the chunks it yielded
    o_raised,               \* the overlapping call: the exception that left it
    o_plays,                \* the overlapping call: its _play_audio_locally invocations
    voice_settings,         \* stream_text_to_speech: voice_settings
    stream_calls            \* the keyword arguments of the client.text_to_speech.stream calls

vars == <<functions, env_key, streamer, constructed, local_playback_enabled, pc,
          entry,
          req_format, output_format, stream_reqs, items_read, chunk,
          local_audio_buffer, yielded, result, raised, vendor_raised,
          local_playback, chunk_count, should_continue, sink_log, sleeps,
          audio_data, play_format, plays, mech_log, voice_id, persona, voiceid,
          env_play_local, o_pc, o_buffer, o_yielded, o_raised, o_plays,
          voice_settings, stream_calls>>

\* the process: its environment and the global adapter instance
globals == <<env_key, streamer, constructed, local_playback_enabled>>
\* what the caller has got
outcome == <<result, raised>>
\* the locals of stream_tts and stream_text_to_speech
adapter_vars == <<req_format, output_format, stream_reqs, items_read, chunk,
                  local_audio_buffer, yielded, vendor_raised>>
\* the locals of speak
speak_vars == <<local_playback, chunk_count, should_continue, sink_log, sleeps>>
\* the locals of _play_audio_locally
play_vars == <<audio_data, play_format, plays, mech_log>>
\* the voice of a speak request
voice_vars == <<voice_id, persona, voiceid>>
\* the locals of an overlapping stream_text_to_speech call
other_call == <<o_pc, o_buffer, o_yielded, o_raised, o_plays>>
\* the voice settings of a stream_text_to_speech call and what went to the vendor
settings_vars == <<voice_settings, stream_calls>>

\* the positions at which the task is suspended and other tasks run
AwaitPcs == {"idle", "done", "persona", "consumer", "sink", "pace", "stop_sleep",
             "final_sleep", "resume", "play_vendor", "play_ffplay", "play_pygame",
             "play_pydub"}

\* the module is loaded and no request has been made
Loaded ==
    /\ streamer = "None"
    /\ constructed = 0
    /\ local_playback_enabled = FALSE
    /\ pc = "idle"
    /\ entry = "none"
    /\ req_format = NoneVal
    /\ output_format = NoneVal
    /\ stream_reqs = <<>>
    /\ items_read = <<>>
    /\ chunk = <<>>
    /\ local_audio_buffer = NoneBuf
    /\ yielded = <<>>
    /\ result = "pending"
    /\ raised = "none"
    /\ vendor_raised = FALSE
    /\ local_playback = FALSE
    /\ chunk_count = 0
    /\ should_continue = TRUE
    /\ sink_log = <<>>
    /\ sleeps = <<>>
    /\ audio_data = <<>>
    /\ play_format = NoneVal
    /\ plays = <<>>
    /\ mech_log = <<>>
    /\ voice_id = NoneVal
    /\ persona = "pending"
    /\ voiceid = NoneVal
    /\ o_pc = "idle"
    /\ o_buffer = NoneBuf
    /\ o_yielded = <<>>
    /\ o_raised = "none"
    /\ o_plays = <<>>
    /\ voice_settings = DefaultSettings
    /\ stream_calls = <<>>

\* a process started without MR_TTS_PLAY_LOCAL in its environment
Init ==
    /\ functions \in SinkEntries
    /\ env_key \in EnvKeys
    /\ env_play_local = NoneVal
    /\ Loaded

\* a process started with or without MR_TTS_PLAY_LOCAL in its environment
InitEnv ==
    /\ functions \in SinkEntries
    /\ env_key \in EnvKeys
    /\ env_play_local \in PlayLocalValues
    /\ Loaded

(***************************************************************************)
(* The host: another task registers or unregisters the sink.               *)
(***************************************************************************)
SetFunctions ==
    /\ pc \in AwaitPcs
    /\ \E e \in SinkEntries \ {functions} : functions' = e
    /\ UNCHANGED <<globals, pc, entry, outcome, adapter_vars, speak_vars, play_vars>>
    /\ UNCHANGED <<voice_vars, env_play_local, other_call, settings_vars>>

\* another task sets or removes ELEVENLABS_API_KEY in os.environ.  The key is
\* read by __init__ only (line 154), so its changes matter while no instance
\* exists.
SetEnv ==
    /\ pc \in AwaitPcs
    /\ streamer = "None"
    /\ \E k \in EnvKeys \ {env_key} : env_key' = k
    /\ UNCHANGED <<functions, streamer, constructed, local_playback_enabled, pc,
                   entry, outcome, adapter_vars, speak_vars, play_vars>>
    /\ UNCHANGED <<voice_vars, env_play_local, other_call, settings_vars>>

(***************************************************************************)
(* A new request: the locals of the previous one are gone.                 *)
(***************************************************************************)
FreshOutcome ==
    /\ result' = "pending"
    /\ raised' = "none"

FreshAdapter ==
    /\ output_format' = NoneVal
    /\ stream_reqs' = <<>>
    /\ items_read' = <<>>
    /\ chunk' = <<>>
    /\ local_audio_buffer' = NoneBuf
    /\ yielded' = <<>>
    /\ vendor_raised' = FALSE

FreshPlay ==
    /\ audio_data' = <<>>
    /\ play_format' = NoneVal
    /\ plays' = <<>>
    /\ mech_log' = <<>>

FreshSpeak ==
    /\ chunk_count' = 0
    /\ should_continue' = TRUE
    /\ sink_log' = <<>>
    /\ sleeps' = <<>>

\* a request that gives no voice settings; no vendor call yet
FreshSettings ==
    /\ voice_settings' = DefaultSettings
    /\ stream_calls' = <<>>

\* no speak request: no voice
NoVoice ==
    /\ voice_id' = NoneVal
    /\ persona' = "pending"
    /\ voiceid' = NoneVal

(***************************************************************************)
(* _get_local_playback_enabled and ElevenLabsStreamer.__init__.            *)
(***************************************************************************)
\* _get_local_playback_enabled(): functions.get(..., None) is None
GetLocalPlaybackEnabled(f) == FunctionsGet(f) = "None"

\* __init__: self.api_key = api_key or os.getenv('ELEVENLABS_API_KEY')
InitApiKey(api_key) == Or(api_key, env_key)
\* a constructor without the check of the key
InitNeverRaises(api_key) == FALSE
\* __init__: `if not self.api_key: raise ValueError`
InitRaises(api_key) == ~Truthy(InitApiKey(api_key))

(***************************************************************************)
(* How an exception, and the end of the chunk sequence, reach the caller.  *)
(***************************************************************************)
\* the chunk sequence ends: a consumer of stream_tts leaves its loop; speak
\* sleeps 0.25 s when it is not in local playback, and returns None
EndOfStream ==
    /\ raised' = raised
    /\ IF entry = "speak" /\ ~local_playback
       THEN pc' = "final_sleep" /\ result' = result
       ELSE /\ pc' = "done"
            /\ result' = IF entry = "speak" THEN "None" ELSE "exhausted"

\* the exception is logged and not raised again: the chunk sequence just ends
PropagateSwallowed(exc) == EndOfStream
\* the exception reaches the caller of speak as well
PropagateToCaller(exc) ==
    /\ raised' = exc
    /\ result' = exc
    /\ pc' = "done"
\* an exception leaves stream_text_to_speech and stream_tts (both log it and
\* re-raise); speak catches it and returns None
Propagate(exc) ==
    /\ raised' = exc
    /\ result' = IF entry = "speak" THEN "None" ELSE exc
    /\ pc' = "done"

(***************************************************************************)
(* speak, up to its async-for loop.                                        *)
(***************************************************************************)
\* line 355: persona.get("voice_id", DEFAULT_VOICE_ID)
PersonaGet(p) == IF p = "has_voice_id" THEN PERSONA_VOICE_ID ELSE DEFAULT_VOICE_ID
\* lines 348 and 358: voice_id or DEFAULT_VOICE_ID
VoiceOrDefault(v) == Or(v, DEFAULT_VOICE_ID)
\* lines 352-358: voiceid once the persona lookup is over
ResolveVoice(v, p) == IF p = "raises" THEN VoiceOrDefault(v) ELSE PersonaGet(p)

StartSpeak ==
    /\ pc \in {"idle", "done"}
    /\ entry' = "speak"
    /\ \E v \in VoiceArgs :
          /\ voice_id' = v
          /\ voiceid' = VoiceOrDefault(v)
    /\ persona' = "pending"
    /\ local_playback' = GetLocalPlaybackEnabled(functions)
    /\ req_format' = NoneVal
    /\ pc' = "persona"
    /\ FreshOutcome /\ FreshAdapter /\ FreshSpeak /\ FreshPlay
    /\ UNCHANGED <<functions, globals>>
    /\ FreshSettings
    /\ UNCHANGED <<env_play_local, other_call>>

\* await service_manager.get_agent_data(...) has returned or raised
PersonaDone ==
    /\ pc = "persona"
    /\ \E p \in PersonaOutcomes :
          /\ persona' = p
          /\ voiceid' = ResolveVoice(voice_id, p)
    /\ UNCHANGED voice_id
    /\ pc' = "tts_start"
    /\ UNCHANGED <<functions, globals, entry, outcome, adapter_vars, speak_vars,
                   play_vars>>
    /\ UNCHANGED <<env_play_local, other_call, settings_vars>>

(***************************************************************************)
(* stream_tts called by an external consumer.                              *)
(***************************************************************************)
StartStreamTts ==
    /\ pc \in {"idle", "done"}
    /\ entry' = "stream_tts"
    /\ \E f \in FormatArgs : req_format' = f
    /\ local_playback' = FALSE
    /\ NoVoice
    /\ pc' = "tts_start"
    /\ FreshOutcome /\ FreshAdapter /\ FreshSpeak /\ FreshPlay
    /\ UNCHANGED <<functions, globals>>
    /\ FreshSettings
    /\ UNCHANGED <<env_play_local, other_call>>

\* stream_tts called with stability, similarity_boost or speed among its
\* **kwargs: lines 305-311 pass them on and they bind to the parameters of
\* stream_text_to_speech (lines 170-172)
StartStreamTtsWith ==
    /\ pc \in {"idle", "done"}
    /\ entry' = "stream_tts"
    /\ \E f \in FormatArgs : req_format' = f
    /\ \E vs \in SettingsSet \ {DefaultSettings} : voice_settings' = vs
    /\ stream_calls' = <<>>
    /\ local_playback' = FALSE
    /\ NoVoice
    /\ pc' = "tts_start"
    /\ FreshOutcome /\ FreshAdapter /\ FreshSpeak /\ FreshPlay
    /\ UNCHANGED <<functions, globals>>
    /\ UNCHANGED <<env_play_local, other_call>>

(***************************************************************************)
(* stream_tts: get_streamer() and the defaults.                            *)
(***************************************************************************)
\* an instance is constructed at every call
NeedsConstructionAlways(s) == TRUE
\* line 254: `if _streamer is None`
NeedsConstruction(s) == s = "None"

\* get_streamer() finds the global instance or makes it (__init__ sets its
\* local_playback_enabled); then `output_format or DEFAULT_OUTPUT_FORMAT`.
\* The voice of a speak request has gone into this call (line 362): speak
\* reads voice_id, persona and voiceid no more, and they are dropped here.
TtsStart ==
    /\ pc = "tts_start"
    /\ NeedsConstruction(streamer) => ~InitRaises(NoneVal)
    /\ streamer' = "instance"
    /\ constructed' = IF NeedsConstruction(streamer) THEN constructed + 1
                      ELSE constructed
    /\ local_playback_enabled' =
           IF NeedsConstruction(streamer) THEN GetLocalPlaybackEnabled(functions)
           ELSE local_playback_enabled
    /\ output_format' = Or(req_format, DEFAULT_OUTPUT_FORMAT)
    /\ pc' = "adapter_start"
    /\ UNCHANGED <<functions, env_key, entry, outcome, req_format, stream_reqs,
                   items_read, chunk, local_audio_buffer, yielded, vendor_raised,
                   speak_vars, play_vars>>
    /\ NoVoice
    /\ UNCHANGED <<env_play_local, other_call, settings_vars>>

\* get_streamer(): the constructor raises ValueError, _streamer stays None
TtsStartRaises ==
    /\ pc = "tts_start"
    /\ NeedsConstruction(streamer) /\ InitRaises(NoneVal)
    /\ Propagate("ValueError")
    /\ UNCHANGED <<functions, globals, entry, adapter_vars, speak_vars, play_vars>>
    /\ NoVoice
    /\ UNCHANGED <<env_play_local, other_call, settings_vars>>

(***************************************************************************)
(* ElevenLabsStreamer.stream_text_to_speech.                               *)
(***************************************************************************)
\* a mode that is only ever switched on: once local, a later call stays local
ModeAtStartSticky(f) == local_playback_enabled \/ ~ValueTruthy(FunctionsGet(f))
\* lines 193-196: local_playback_enabled is False iff the registry value is truthy
ModeAtStart(f) == ~ValueTruthy(FunctionsGet(f))
\* the requested format kept in local mode too
ResolvedFormatKept(local, fmt) == fmt
\* lines 200-201: local mode overrides the requested format
ResolvedFormat(local, fmt) == IF local THEN LOCAL_OUTPUT_FORMAT ELSE fmt
\* line 213: b"" if self.local_playback_enabled else None
InitialBuffer(local) == IF local THEN <<>> ELSE NoneBuf

\* lines 206-212: the keyword arguments of client.text_to_speech.stream, for a
\* call without further **kwargs.  text, voice_id and model_id are left out
\* here as they are everywhere in this model.  voice_settings, built at lines
\* 203-205, is not among the arguments.
StreamRequest(fmt, settings) == [output_format |-> fmt]

\* the mode, the format and the request, up to client.text_to_speech.stream
OpenStream ==
    /\ pc = "adapter_start"
    /\ local_playback_enabled' = ModeAtStart(functions)
    /\ output_format' = ResolvedFormat(local_playback_enabled', output_format)
    /\ stream_reqs' = Append(stream_reqs, output_format')
    /\ stream_calls' = Append(stream_calls,
                              StreamRequest(output_format', voice_settings))

\* the stream is open: the playback buffer is set up and the loop is entered
AdapterStart ==
    /\ OpenStream
    /\ local_audio_buffer' = InitialBuffer(local_playback_enabled')
    /\ pc' = "read"
    /\ UNCHANGED <<functions, env_key, streamer, constructed, entry, outcome, req_format,
                   items_read, chunk, yielded, vendor_raised, speak_vars, play_vars>>
    /\ UNCHANGED <<voice_vars, env_play_local, other_call, voice_settings>>

\* client.text_to_speech.stream raises
AdapterStartRaises ==
    /\ OpenStream
    /\ vendor_raised' = TRUE
    /\ Propagate("StreamingError")
    /\ UNCHANGED <<functions, env_key, streamer, constructed, entry, req_format, items_read,
                   chunk, local_audio_buffer, yielded, speak_vars, play_vars>>
    /\ UNCHANGED <<voice_vars, env_play_local, other_call, voice_settings>>

\* no type test: every item of the stream is taken for a chunk
IsBytesAlways(it) == TRUE
\* line 217: isinstance(chunk, bytes)
IsBytes(it) == it.is_bytes
\* line 223 when the flag of the shared instance is set and this call keeps no
\* buffer: None += chunk raises TypeError
CollectRaises(local, buf) == local /\ buf = NoneBuf
\* the chunk put in front of the buffer
CollectInFront(local, buf, c) == IF local THEN c \o buf ELSE buf
\* line 223: local_audio_buffer += chunk, in local mode only
Collect(local, buf, c) == IF local THEN buf \o c ELSE buf

\* `for chunk in audio_stream`: the next item; a bytes item is collected and is
\* about to be yielded, any other item is skipped
AdapterRead ==
    /\ pc = "read"
    /\ Len(items_read) < MaxItems
    /\ \E it \in Items :
          /\ items_read' = Append(items_read, it)
          /\ IF ~IsBytes(it)
             THEN /\ pc' = "read"
                  /\ UNCHANGED <<chunk, local_audio_buffer, outcome>>
             ELSE IF CollectRaises(local_playback_enabled, local_audio_buffer)
             THEN /\ chunk' = it.data
                  /\ Propagate("TypeError")
                  /\ UNCHANGED local_audio_buffer
             ELSE /\ chunk' = it.data
                  /\ local_audio_buffer' =
                         Collect(local_playback_enabled, local_audio_buffer, it.data)
                  /\ pc' = "yield"
                  /\ UNCHANGED outcome
    /\ UNCHANGED <<functions, globals, entry, req_format, output_format,
                   stream_reqs, yielded, vendor_raised, speak_vars, play_vars>>
    /\ UNCHANGED <<voice_vars, env_play_local, other_call, settings_vars>>

\* reading the next item raises
AdapterReadRaises ==
    /\ pc = "read"
    /\ vendor_raised' = TRUE
    /\ Propagate("StreamingError")
    /\ UNCHANGED <<functions, globals, entry, req_format, output_format, stream_reqs,
                   items_read, chunk, local_audio_buffer, yielded, speak_vars,
                   play_vars>>
    /\ UNCHANGED <<voice_vars, env_play_local, other_call, settings_vars>>

\* line 233: `if self.local_playback_enabled and local_audio_buffer`
WantsPlayback(local, buf) == local /\ TruthyBuf(buf)

\* the playback handed to the executor and not awaited: the generator goes on
PlaybackNotAwaited == "play_ret"
\* lines 236-241: `await loop.run_in_executor(None, _play_audio_locally, ...)`:
\* the generator goes on only when _play_audio_locally, entered here, has returned
PlaybackEntry == "play_vendor"

\* the stream is exhausted and the buffer goes to _play_audio_locally
AdapterExhaustedPlay ==
    /\ pc = "read"
    /\ WantsPlayback(local_playback_enabled, local_audio_buffer)
    /\ audio_data' = local_audio_buffer
    /\ play_format' = output_format
    /\ plays' = Append(plays, [audio_data |-> local_audio_buffer,
                               output_format |-> output_format])
    /\ mech_log' = <<>>
    /\ pc' = PlaybackEntry
    /\ UNCHANGED <<functions, globals, entry, outcome, adapter_vars, speak_vars>>
    /\ UNCHANGED <<voice_vars, env_play_local, other_call, settings_vars>>

\* the stream is exhausted and nothing is played
AdapterExhaustedEnd ==
    /\ pc = "read"
    /\ ~WantsPlayback(local_playback_enabled, local_audio_buffer)
    /\ EndOfStream
    /\ UNCHANGED <<functions, globals, entry, adapter_vars, speak_vars, play_vars>>
    /\ UNCHANGED <<voice_vars, env_play_local, other_call, settings_vars>>

\* `yield chunk`, through stream_tts, to an external consumer
YieldToConsumer ==
    /\ pc = "yield"
    /\ entry = "stream_tts"
    /\ yielded' = Append(yielded, chunk)
    /\ pc' = "consumer"
    /\ UNCHANGED <<functions, globals, entry, outcome, req_format, output_format,
                   stream_reqs, items_read, chunk, local_audio_buffer, vendor_raised,
                   speak_vars, play_vars>>
    /\ UNCHANGED <<voice_vars, env_play_local, other_call, settings_vars>>

\* the external consumer asks for the next chunk
ConsumerPull ==
    /\ pc = "consumer"
    /\ pc' = "resume"
    /\ UNCHANGED <<functions, globals, entry, outcome, adapter_vars, speak_vars,
                   play_vars>>
    /\ UNCHANGED <<voice_vars, env_play_local, other_call, settings_vars>>

\* line 228: await asyncio.sleep(0), then the loop goes on
Resume ==
    /\ pc = "resume"
    /\ pc' = "read"
    /\ UNCHANGED <<functions, globals, entry, outcome, adapter_vars, speak_vars,
                   play_vars>>
    /\ UNCHANGED <<voice_vars, env_play_local, other_call, settings_vars>>

(***************************************************************************)
(* speak: the body of its async-for loop and its end.                      *)
(***************************************************************************)
\* the chunk sent to the sink in local delivery too
AfterYieldAlwaysSink(local) == "sink"
\* line 366: `if not local_playback:` guards the sink call and the pacing
AfterYield(local) == IF ~local THEN "sink" ELSE "resume"

\* `yield chunk`, through stream_tts, to speak: chunk_count += 1, and in
\* remote delivery the chunk goes to the sink
YieldToSpeak ==
    /\ pc = "yield"
    /\ entry = "speak"
    /\ yielded' = Append(yielded, chunk)
    /\ chunk_count' = chunk_count + 1
    /\ pc' = AfterYield(local_playback)
    /\ UNCHANGED <<functions, globals, entry, outcome, req_format, output_format,
                   stream_reqs, items_read, chunk, local_audio_buffer, vendor_raised,
                   local_playback, should_continue, sink_log, sleeps, play_vars>>
    /\ UNCHANGED <<voice_vars, env_play_local, other_call, settings_vars>>

\* the next chunk is requested as soon as the sink call has returned
AfterSinkReturnNoPace == "resume"
\* lines 367-371: the statements after the sink call, up to the pacing sleep
AfterSinkReturn == "pace"

\* await service_manager.sip_audio_out_chunk(chunk) returns a flag; a provider
\* answers only while one is registered
SinkReturns ==
    /\ pc = "sink"
    /\ ValueTruthy(FunctionsGet(functions))
    /\ \E go \in BOOLEAN :
          /\ should_continue' = go
          /\ sink_log' = Append(sink_log, [chunk |-> chunk,
                                           out |-> IF go THEN "go" ELSE "stop"])
    /\ pc' = AfterSinkReturn
    /\ UNCHANGED <<functions, globals, entry, outcome, adapter_vars, local_playback,
                   chunk_count, sleeps, play_vars>>
    /\ UNCHANGED <<voice_vars, env_play_local, other_call, settings_vars>>

\* a failed sink call taken for a request to stop
AfterSinkErrorStops == "stop_sleep"
\* a failed sink call after which the request is never resumed
AfterSinkErrorHangs == "hung"
\* lines 381-383: after `except Exception` the loop goes on with the next chunk
AfterSinkError == "resume"

\* the sink call raises
SinkRaises ==
    /\ pc = "sink"
    /\ should_continue' = TRUE
    /\ sink_log' = Append(sink_log, [chunk |-> chunk, out |-> "raise"])
    /\ pc' = AfterSinkError
    /\ UNCHANGED <<functions, globals, entry, outcome, adapter_vars, local_playback,
                   chunk_count, sleeps, play_vars>>
    /\ UNCHANGED <<voice_vars, env_play_local, other_call, settings_vars>>

\* the flag the sink returned is not looked at
AfterPaceIgnoresFlag(go) == "resume"
\* lines 375-377: `if not should_continue:` leads to the one-second sleep and
\* the return; otherwise the loop requests the next chunk
AfterPace(go) == IF ~go THEN "stop_sleep" ELSE "resume"

\* lines 369-375: await asyncio.sleep(to_wait), then the flag is looked at
PaceSleep ==
    /\ pc = "pace"
    /\ sleeps' = Append(sleeps, ToWait(chunk))
    /\ pc' = AfterPace(should_continue)
    /\ UNCHANGED <<functions, globals, entry, outcome, adapter_vars, local_playback,
                   chunk_count, should_continue, sink_log, play_vars>>
    /\ UNCHANGED <<voice_vars, env_play_local, other_call, settings_vars>>

\* the warning for up to three chunks instead of fewer than three
StopResultOffByOne(n) == IF n <= EarlyStopChunks THEN WARNING_TEXT ELSE "None"
\* lines 378-380: what speak returns once the sink asked to stop
StopResult(n) == IF n < EarlyStopChunks THEN WARNING_TEXT ELSE "None"

\* lines 377-380: await asyncio.sleep(1.0), then return
StopSleepDone ==
    /\ pc = "stop_sleep"
    /\ sleeps' = Append(sleeps, StopSleep)
    /\ result' = StopResult(chunk_count)
    /\ pc' = "done"
    /\ UNCHANGED <<functions, globals, entry, raised, adapter_vars, local_playback,
                   chunk_count, should_continue, sink_log, play_vars>>
    /\ UNCHANGED <<voice_vars, env_play_local, other_call, settings_vars>>

\* lines 385-392: await asyncio.sleep(0.25), then return None
FinalSleepDone ==
    /\ pc = "final_sleep"
    /\ sleeps' = Append(sleeps, FinalSleep)
    /\ result' = "None"
    /\ pc' = "done"
    /\ UNCHANGED <<functions, globals, entry, raised, adapter_vars, local_playback,
                   chunk_count, should_continue, sink_log, play_vars>>
    /\ UNCHANGED <<voice_vars, env_play_local, other_call, settings_vars>>

(***************************************************************************)
(* _play_audio_locally.  A mechanism ends in one of these outcomes: "ok"   *)
(* (it played and the function returned; for ffplay, exit code 0),         *)
(* "unsupported" (pydub: the function returned without playing),           *)
(* "ImportError" / "FileNotFoundError" (the mechanism is not installed),   *)
(* "exit1" (ffplay exited non-zero), "raises" (any other exception).       *)
(***************************************************************************)
Mechanisms == <<"elevenlabs.play", "ffplay", "pygame", "pydub">>
PlayPc(i) == <<"play_vendor", "play_ffplay", "play_pygame", "play_pydub">>[i]

\* lines 118-139: pydub decodes mp3 and pcm, and returns on any other format
PydubSupports(fmt) ==
    Contains(<<"m","p","3">>, Lower(fmt)) \/ Contains(<<"p","c","m">>, Lower(fmt))

\* lines 49, 54, 68, 74: the arguments every ffplay command starts with, and
\* lines 50, 55, 69, 75: the ones it ends with
FfplayHead == <<"ffplay", "-nodisp", "-autoexit", "-loglevel", "quiet">>
FfplayInput == <<"-i", "pipe:0">>

\* lines 59-65: str(sample_rate), the rate looked for in the tag as it is
SampleRate(fmt) ==
    IF Contains(<<"1","6","0","0","0">>, fmt) THEN "16000"
    ELSE IF Contains(<<"4","4","1","0","0">>, fmt) THEN "44100"
    ELSE IF Contains(<<"2","4","0","0","0">>, fmt) THEN "24000"
    ELSE "22050"

\* 'mp3' looked for before 'ulaw'
FfplayCmdMp3First(fmt) ==
    IF Contains(<<"m","p","3">>, Lower(fmt))
    THEN FfplayHead \o <<"-f", "mp3">> \o FfplayInput
    ELSE IF Contains(<<"u","l","a","w">>, Lower(fmt))
    THEN FfplayHead \o <<"-f", "mulaw", "-ar", "8000", "-ac", "1">> \o FfplayInput
    ELSE IF Contains(<<"p","c","m">>, Lower(fmt))
    THEN FfplayHead \o <<"-f", "s16le", "-ar", SampleRate(fmt), "-ac", "1">>
                    \o FfplayInput
    ELSE FfplayHead \o FfplayInput
\* lines 46-76: cmd, the ffplay command for a format tag
FfplayCmd(fmt) ==
    IF Contains(<<"u","l","a","w">>, Lower(fmt))
    THEN FfplayHead \o <<"-f", "mulaw", "-ar", "8000", "-ac", "1">> \o FfplayInput
    ELSE IF Contains(<<"m","p","3">>, Lower(fmt))
    THEN FfplayHead \o <<"-f", "mp3">> \o FfplayInput
    ELSE IF Contains(<<"p","c","m">>, Lower(fmt))
    THEN FfplayHead \o <<"-f", "s16le", "-ar", SampleRate(fmt), "-ac", "1">>
                    \o FfplayInput
    ELSE FfplayHead \o FfplayInput

\* the command line mechanism i runs: ffplay is the only one that runs one
MechanismCmd(i, fmt) == IF i = 2 THEN FfplayCmd(fmt) ELSE <<>>

\* the outcomes mechanism i can end in
Outcomes(i, fmt) ==
    CASE i = 1 -> {"ImportError", "raises", "ok"}
      [] i = 2 -> {"FileNotFoundError", "raises", "exit1", "ok"}
      [] i = 3 -> {"ImportError", "raises", "ok"}
      [] i = 4 -> IF PydubSupports(fmt) THEN {"ImportError", "raises", "ok"}
                  ELSE {"ImportError", "unsupported"}

\* the mechanism ended in a `return` statement (lines 37, 84, 108, 139, 143)
Returned(i, o) == o \in {"ok", "unsupported"}

\* the except clauses of the mechanism's own try statement (lines 38, 87-90,
\* 109, 144); a non-zero exit of ffplay falls through its else branch
HandledInside(i, o) ==
    CASE i = 2 -> o \in {"FileNotFoundError", "raises", "exit1"}
      [] OTHER -> o = "ImportError"

\* an outer handler for ImportError only
HandledOutsideImportOnly(o) == o = "ImportError"
\* line 149: `except Exception` around the whole body
HandledOutside(o) == o \in {"ImportError", "FileNotFoundError", "raises"}

\* a mechanism that played without the `return` after it
AfterMechanismNoReturn(i, o) ==
    IF i < Len(Mechanisms) THEN PlayPc(i + 1) ELSE "play_ret"
\* where _play_audio_locally goes after mechanism i ended in o: to the next
\* mechanism when the mechanism's own try statement dealt with it, out otherwise
AfterMechanism(i, o) ==
    IF ~Returned(i, o) /\ HandledInside(i, o) /\ i < Len(Mechanisms)
    THEN PlayPc(i + 1) ELSE "play_ret"

\* the exception of the last mechanism tried leaves _play_audio_locally
PlayEscapes ==
    /\ mech_log /= <<>>
    /\ LET l == mech_log[Len(mech_log)]
       IN  /\ ~Returned(l.i, l.out)
           /\ ~HandledInside(l.i, l.out)
           /\ ~HandledOutside(l.out)

\* a direct call of _play_audio_locally
StartPlay ==
    /\ pc \in {"idle", "done"}
    /\ entry' = "play"
    /\ \E b \in AudioBuffers, f \in FormatTags :
          /\ audio_data' = b
          /\ play_format' = f
          /\ plays' = <<[audio_data |-> b, output_format |-> f]>>
    /\ mech_log' = <<>>
    /\ req_format' = NoneVal
    /\ local_playback' = FALSE
    /\ NoVoice
    /\ pc' = "play_vendor"
    /\ FreshOutcome /\ FreshAdapter /\ FreshSpeak
    /\ UNCHANGED <<functions, globals>>
    /\ FreshSettings
    /\ UNCHANGED <<env_play_local, other_call>>

\* mechanism i is tried and ends in one of its outcomes
TryMechanism(i) ==
    /\ \E o \in Outcomes(i, play_format) :
          /\ mech_log' = Append(mech_log, [i |-> i, mech |-> Mechanisms[i], out |-> o,
                                       cmd |-> MechanismCmd(i, play_format)])
          /\ pc' = AfterMechanism(i, o)
    /\ UNCHANGED <<functions, globals, entry, outcome, adapter_vars, speak_vars,
                   audio_data, play_format, plays>>
    /\ UNCHANGED <<voice_vars, env_play_local, other_call, settings_vars>>

TryVendorPlay == pc = PlayPc(1) /\ TryMechanism(1)
TryFfplay == pc = PlayPc(2) /\ TryMechanism(2)
TryPygame == pc = PlayPc(3) /\ TryMechanism(3)
TryPydub == pc = PlayPc(4) /\ TryMechanism(4)

\* _play_audio_locally is over: a direct caller has its return; in the adapter
\* `await loop.run_in_executor(...)` is over and the generator ends
PlayReturns ==
    /\ pc = "play_ret"
    /\ IF PlayEscapes THEN Propagate("PlaybackError")
       ELSE IF entry = "play"
            THEN pc' = "done" /\ result' = "returned" /\ raised' = raised
            ELSE EndOfStream
    /\ mech_log' = <<>>
    /\ UNCHANGED <<functions, globals, entry, adapter_vars, speak_vars, audio_data,
                   play_format, plays>>
    /\ UNCHANGED <<voice_vars, env_play_local, other_call, settings_vars>>

(***************************************************************************)
(* A second stream_text_to_speech call on the shared instance, overlapping *)
(* the request above.  Its code runs while the task of the request is      *)
(* suspended, one action for each stretch of it between two suspensions    *)
(* (the yield of a chunk with the sleep(0) after it); its vendor stream    *)
(* yields OtherChunk, at least once.                                       *)
(***************************************************************************)
\* lines 193-225: the flag of the shared instance is set from the registry, the
\* buffer is set up, the first chunk is read, collected and yielded
OtherStart ==
    /\ pc \in AwaitPcs
    /\ streamer = "instance"
    /\ o_pc = "idle"
    /\ local_playback_enabled' = ModeAtStart(functions)
    /\ o_buffer' = Collect(local_playback_enabled',
                           InitialBuffer(local_playback_enabled'), OtherChunk)
    /\ o_yielded' = <<OtherChunk>>
    /\ o_pc' = "suspended"
    /\ UNCHANGED <<functions, env_key, streamer, constructed, pc, entry, outcome, adapter_vars,
                   speak_vars, play_vars, voice_vars, settings_vars, env_play_local, o_raised,
                   o_plays>>

\* lines 216-225: the next chunk is read, collected under the flag as it is
\* now, and yielded; None += chunk raises TypeError, which leaves the call
OtherNext ==
    /\ pc \in AwaitPcs
    /\ o_pc = "suspended"
    /\ Len(o_yielded) < MaxOtherItems
    /\ IF CollectRaises(local_playback_enabled, o_buffer)
       THEN /\ o_raised' = "TypeError"
            /\ o_pc' = "done"
            /\ UNCHANGED <<o_buffer, o_yielded>>
       ELSE /\ o_buffer' = Collect(local_playback_enabled, o_buffer, OtherChunk)
            /\ o_yielded' = Append(o_yielded, OtherChunk)
            /\ UNCHANGED <<o_raised, o_pc>>
    /\ UNCHANGED <<functions, globals, pc, entry, outcome, adapter_vars, speak_vars,
                   play_vars, voice_vars, settings_vars, env_play_local, o_plays>>

\* lines 230-242: the stream is exhausted; the buffer is played under the flag
\* as it is now
OtherEnd ==
    /\ pc \in AwaitPcs
    /\ o_pc = "suspended"
    /\ o_plays' = IF WantsPlayback(local_playback_enabled, o_buffer)
                  THEN <<o_buffer>> ELSE <<>>
    /\ o_pc' = "done"
    /\ UNCHANGED <<functions, globals, pc, entry, outcome, adapter_vars, speak_vars,
                   play_vars, voice_vars, settings_vars, env_play_local, o_buffer, o_yielded,
                   o_raised>>

(***************************************************************************)
(* The specification.                                                      *)
(***************************************************************************)
Next ==
    \/ SetFunctions
    \/ SetEnv
    \/ StartSpeak
    \/ PersonaDone
    \/ StartStreamTts
    \/ TtsStart
    \/ TtsStartRaises
    \/ AdapterStart
    \/ AdapterStartRaises
    \/ AdapterRead
    \/ AdapterReadRaises
    \/ AdapterExhaustedPlay
    \/ AdapterExhaustedEnd
    \/ YieldToConsumer
    \/ ConsumerPull
    \/ Resume
    \/ YieldToSpeak
    \/ SinkReturns
    \/ SinkRaises
    \/ PaceSleep
    \/ StopSleepDone
    \/ FinalSleepDone
    \/ StartPlay
    \/ TryVendorPlay
    \/ TryFfplay
    \/ TryPygame
    \/ TryPydub
    \/ PlayReturns

Spec == Init /\ [][Next]_vars

\* the same program in the environments of InitEnv
SpecEnv == InitEnv /\ [][Next]_vars

\* stream_tts requests of external consumers and one overlapping call
NextOverlap ==
    \/ SetFunctions
    \/ StartStreamTts
    \/ TtsStart
    \/ TtsStartRaises
    \/ AdapterStart
    \/ AdapterStartRaises
    \/ AdapterRead
    \/ AdapterReadRaises
    \/ AdapterExhaustedPlay
    \/ AdapterExhaustedEnd
    \/ YieldToConsumer
    \/ ConsumerPull
    \/ Resume
    \/ TryVendorPlay
    \/ TryFfplay
    \/ TryPygame
    \/ TryPydub
    \/ PlayReturns
    \/ OtherStart
    \/ OtherNext
    \/ OtherEnd

SpecOverlap == Init /\ [][NextOverlap]_vars

\* stream_tts requests of external consumers, with and without voice settings
NextSettings ==
    \/ SetFunctions
    \/ StartStreamTts
    \/ StartStreamTtsWith
    \/ TtsStart
    \/ TtsStartRaises
    \/ AdapterStart
    \/ AdapterStartRaises
    \/ AdapterRead
    \/ AdapterReadRaises
    \/ AdapterExhaustedPlay
    \/ AdapterExhaustedEnd
    \/ YieldToConsumer
    \/ ConsumerPull
    \/ Resume
    \/ TryVendorPlay
    \/ TryFfplay
    \/ TryPygame
    \/ TryPydub
    \/ PlayReturns

SpecSettings == Init /\ [][NextSettings]_vars

\* the steps of a speak request: the code of speak, stream_tts,
\* stream_text_to_speech and _play_audio_locally between two suspensions
SpeakStep ==
    \/ PersonaDone
    \/ TtsStart
    \/ TtsStartRaises
    \/ AdapterStart
    \/ AdapterStartRaises
    \/ AdapterRead
    \/ AdapterReadRaises
    \/ AdapterExhaustedPlay
    \/ AdapterExhaustedEnd
    \/ Resume
    \/ YieldToSpeak
    \/ SinkReturns
    \/ SinkRaises
    \/ PaceSleep
    \/ StopSleepDone
    \/ FinalSleepDone
    \/ TryVendorPlay
    \/ TryFfplay
    \/ TryPygame
    \/ TryPydub
    \/ PlayReturns

\* speak requests, one after the other, under each registry content, while
\* the host changes the environment
NextSpeak ==
    \/ SetEnv
    \/ StartSpeak
    \/ SpeakStep

\* The event loop resumes the task of the request whenever what it awaits is
\* over, and every sink call, persona lookup, playback and sleep is over at
\* some time: a request that can take a step takes one.  The vendor stream is
\* finite: it yields at most MaxItems items.
SpecSpeakFair == Init /\ [][NextSpeak]_vars /\ WF_vars(SpeakStep)

(***************************************************************************)
(* Helpers of the properties.                                              *)
(***************************************************************************)
Last(s) == s[Len(s)]
Front(s) == SubSeq(s, 1, Len(s) - 1)
\* the concatenation of a sequence of bytes objects
RECURSIVE Concat(_)
Concat(ss) == IF ss = <<>> THEN <<>> ELSE Head(ss) \o Concat(Tail(ss))
\* the byte-valued items of a sequence of vendor items, in order
BytesOf(items) ==
    LET sel == SelectSeq(items, LAMBDA it : it.is_bytes)
    IN  [i \in 1..Len(sel) |-> sel[i].data]
\* how often x occurs in s
Count(s, x) == Cardinality({i \in 1..Len(s) : s[i] = x})
\* a stream_text_to_speech call is running or has run in this request
AdapterCalled == stream_reqs /= <<>>

(***************************************************************************)
(* C1.  Delivery mode and the registry at the start of the call.           *)
(***************************************************************************)
\* C1, as stated: a stream_text_to_speech call runs in local mode if and only
\* if service_manager.functions holds no 'sip_audio_out_chunk' entry when the
\* call starts.
C1_LocalIffNoEntry ==
    [][pc = "adapter_start"
         => (local_playback_enabled' <=> functions = "absent")]_vars

\* C1, amended: a stream_text_to_speech call runs in local mode if and only if
\* functions.get('sip_audio_out_chunk') is falsy when the call starts (no
\* entry, or an entry holding None or another falsy value); the mode is set
\* from the registry alone, whatever mode the call before it ran in, and it
\* does not change during the call.
C1_ModeFromRegistryAtStart ==
    [][/\ pc = "adapter_start"
            => (local_playback_enabled' <=> functions \in {"absent", "None", "falsy"})
       /\ pc \notin {"tts_start", "adapter_start"}
            => local_playback_enabled' = local_playback_enabled]_vars

\* a call has just started in local mode on a registry that holds a falsy entry
C1_Witness ==
    /\ pc = "read" /\ items_read = <<>>
    /\ functions = "falsy"
    /\ local_playback_enabled

(***************************************************************************)
(* C2.  What the adapter yields.                                           *)
(***************************************************************************)
\* C2: the chunks the consumer has received are exactly the byte-valued items
\* read from the vendor stream so far, each once and in vendor order, but for
\* the one chunk in hand that is about to be yielded; non-byte items are
\* skipped; and the next vendor item is read only when every chunk read
\* before it has been yielded.  In local and in remote mode alike.
C2_YieldsExactlyTheByteItems ==
    /\ [](/\ pc /= "yield" => yielded = BytesOf(items_read)
          /\ pc = "yield" => /\ BytesOf(items_read) = Append(yielded, chunk)
                             /\ Last(items_read).is_bytes)
    /\ [][Len(items_read') > Len(items_read) => yielded = BytesOf(items_read)]_vars

\* in local mode two chunks were yielded around a skipped non-byte item
C2_Witness ==
    /\ local_playback_enabled
    /\ Len(items_read) = 3 /\ ~items_read[2].is_bytes
    /\ yielded = <<items_read[1].data, items_read[3].data>>
    /\ yielded[1] /= yielded[2]

C4_SinkFailureDoesNotStopSpeak ==
    entry = "speak" =>
        /\ ~local_playback =>
              [i \in 1..Len(sink_log) |-> sink_log[i].chunk]
                  = IF pc = "sink" THEN Front(yielded) ELSE yielded
        /\ (sink_log /= <<>> /\ Last(sink_log).out = "raise") =>
              /\ pc \notin {"pace", "stop_sleep"}
              /\ result \in {"pending", "None"}
              /\ raised \in {"none", "StreamingError"}
              /\ pc = "done" =>
                    vendor_raised \/ (sleeps /= <<>> /\ Last(sleeps) = FinalSleep)
        /\ result = WARNING_TEXT =>
              sink_log /= <<>> /\ Last(sink_log).out = "stop"

\* the first sink call raised, the second chunk was forwarded all the same,
\* and speak returned None
C4_Witness ==
    /\ entry = "speak" /\ pc = "done" /\ result = "None"
    /\ Len(sink_log) >= 2
    /\ sink_log[1].out = "raise" /\ sink_log[2].out = "go"
    /\ sink_log[2].chunk = yielded[2]

(***************************************************************************)
(* C5.  The vendor stream fails.                                           *)
(***************************************************************************)
\* C5: when the vendor client raises, at the request or at an item, the
\* exception leaves stream_text_to_speech and stream_tts and reaches their
\* consumer; the chunks read before the failure have each been yielded once;
\* and the vendor stream is requested at most once per call.
C5_VendorFailureReachesConsumer ==
    /\ Len(stream_reqs) <= 1
    /\ vendor_raised =>
          /\ pc = "done"
          /\ raised = "StreamingError"
          /\ entry = "stream_tts" => result = "StreamingError"
          /\ yielded = BytesOf(items_read)
          /\ Len(stream_reqs) = 1

\* the stream failed after two chunks had reached an external consumer
C5_Witness ==
    /\ entry = "stream_tts" /\ vendor_raised
    /\ Len(yielded) = 2
    /\ result = "StreamingError"

C7_PlaybackNeverRaises ==
    /\ raised /= "PlaybackError"
    /\ (entry = "play" /\ pc = "done") => result = "returned"
    /\ (entry = "stream_tts" /\ pc = "done" /\ plays /= <<>>) => result = "exhausted"

\* inside a stream_text_to_speech call every mechanism has failed, the last
\* one with an exception, and _play_audio_locally is about to return
C7_Witness ==
    /\ entry = "stream_tts" /\ pc = "play_ret"
    /\ Len(mech_log) = 4
    /\ mech_log[1].out = "ImportError"
    /\ mech_log[2].out = "raises"
    /\ mech_log[3].out = "ImportError"
    /\ mech_log[4].out = "raises"

(***************************************************************************)
(* C8.  No API key.                                                        *)
(***************************************************************************)
\* C8: with no api_key argument and no ELEVENLABS_API_KEY in the environment
\* the constructor raises ValueError: no adapter instance (and so no vendor
\* client) exists, no stream request is made, and a request that has ended
\* got ValueError out of stream_tts; an external consumer receives it.
C8_MissingKeyRaisesFirst ==
    env_key = NoneVal =>
        /\ streamer = "None"
        /\ stream_reqs = <<>> /\ items_read = <<>>
        /\ (entry \in {"speak", "stream_tts"} /\ pc = "done") => raised = "ValueError"
        /\ (entry = "stream_tts" /\ pc = "done") => result = "ValueError"

\* an external consumer of stream_tts got the ValueError
C8_Witness ==
    /\ env_key = NoneVal
    /\ entry = "stream_tts" /\ pc = "done"
    /\ result = "ValueError"

Exhausted ==
    /\ AdapterCalled /\ ~vendor_raised
    /\ \/ entry = "stream_tts" /\ pc = "done"
       \/ /\ entry = "speak" /\ pc \in {"final_sleep", "done"}
          /\ \A k \in 1..Len(sink_log) : sink_log[k].out /= "stop"

\* C10: in a stream_text_to_speech call in remote mode no buffer is kept and
\* _play_audio_locally is never invoked; in local mode the buffer is the
\* in-order concatenation of the chunks read; _play_audio_locally is invoked
\* at most once, only in local mode with a non-empty buffer, with the
\* concatenation of all the chunks the call yielded (so after the last of
\* them), in the format of the stream request; and once the stream is
\* exhausted it has been invoked exactly once in local mode with a non-empty
\* buffer, and not at all otherwise.
C10_PlaybackOfTheBuffer ==
    entry \in {"speak", "stream_tts"} =>
        /\ (AdapterCalled /\ ~local_playback_enabled) =>
              plays = <<>> /\ local_audio_buffer = NoneBuf
        /\ (AdapterCalled /\ local_playback_enabled /\ ~vendor_raised) =>
              local_audio_buffer = Concat(BytesOf(items_read))
        /\ Len(plays) <= 1
        /\ plays /= <<>> =>
              /\ local_playback_enabled
              /\ plays[1].audio_data /= <<>>
              /\ plays[1].audio_data = Concat(yielded)
              /\ plays[1].output_format = stream_reqs[1]
        /\ Exhausted =>
              Len(plays) = IF local_playback_enabled /\ Concat(yielded) /= <<>>
                           THEN 1 ELSE 0

\* a local call yielded <<1>> and <<2, 3>> and then played <<1, 2, 3>>
C10_Witness ==
    /\ entry = "stream_tts" /\ pc = "done" /\ result = "exhausted"
    /\ yielded = << <<1>>, <<2, 3>> >>
    /\ Len(plays) = 1
    /\ plays[1].audio_data = <<1, 2, 3>>

PacedChunks ==
    LET ret == SelectSeq(sink_log, LAMBDA e : e.out /= "raise")
    IN  [k \in 1..Len(ret) |-> ret[k].chunk]

\* C12, as stated: in remote delivery, when speak requests the next chunk it
\* has forwarded every chunk emitted so far to the sink and has slept
\* (len(chunk) / 8000) * 0.98 seconds for each of them.
C12_EveryChunkPaced ==
    (entry = "speak" /\ ~local_playback /\ pc = "resume") =>
        /\ Len(sink_log) = Len(yielded)
        /\ Len(sleeps) = Len(yielded)
        /\ \A k \in 1..Len(sleeps) :
              sleeps[k] * 8000 * 100 = Len(yielded[k]) * 98 * TicksPerSecond

\* C12, amended: in remote delivery speak calls the sink with every chunk the
\* adapter emits; for every sink call that returned it sleeps
\* (len(chunk) / 8000) * 0.98 seconds before anything else, and for a sink
\* call that raised it does not sleep at all; the only other sleep is the one
\* before the return.
C12_ReturnedSinkCallsPaced ==
    (entry = "speak" /\ ~local_playback) =>
        /\ [k \in 1..Len(sink_log) |-> sink_log[k].chunk]
              = IF pc = "sink" THEN Front(yielded) ELSE yielded
        /\ LET paced == IF pc = "pace" THEN Front(PacedChunks) ELSE PacedChunks
           IN  /\ Len(sleeps) \in {Len(paced), Len(paced) + 1}
               /\ \A k \in 1..Len(paced) :
                     sleeps[k] * 8000 * 100 = Len(paced[k]) * 98 * TicksPerSecond
               /\ Len(sleeps) = Len(paced) + 1 =>
                     pc = "done" /\ Last(sleeps) \in {StopSleep, FinalSleep}

\* after a sink call that raised, a two-byte chunk was forwarded and paced
\* with 245 microseconds, and speak asks for the next chunk
C12_Witness ==
    /\ entry = "speak" /\ ~local_playback /\ pc = "resume"
    /\ Len(sink_log) = 2
    /\ sink_log[1].out = "raise" /\ sink_log[2].out = "go"
    /\ Len(sink_log[2].chunk) = 2
    /\ sleeps = <<(245 * TicksPerSecond) \div (1000 * 1000)>>

C15_LocalSpeakSleepsBriefly ==
    (entry = "speak" /\ local_playback) =>
        /\ sink_log = <<>>
        /\ \A k \in 1..Len(sleeps) : sleeps[k] = FinalSleep
        /\ (pc = "done" /\ raised = "none") =>
              /\ yielded = BytesOf(items_read)
              /\ sleeps = <<FinalSleep>>

\* C15, amended: in local delivery speak makes no sink call and no sleep at
\* all (no pacing sleep, and no brief sleep at the end: that one is made in
\* remote delivery only); it returns None, and without an exception only when
\* every chunk read has been handed to it.
C15_LocalSpeakNeverSleeps ==
    (entry = "speak" /\ local_playback) =>
        /\ sink_log = <<>>
        /\ sleeps = <<>>
        /\ pc /= "final_sleep"
        /\ pc = "done" => result = "None"
        /\ (pc = "done" /\ raised = "none") => yielded = BytesOf(items_read)

\* a speak request in local delivery drained three chunks and returned
C15_Witness ==
    /\ entry = "speak" /\ local_playback /\ pc = "done"
    /\ raised = "none"
    /\ Len(yielded) = 3
    /\ sleeps = <<>>

(***************************************************************************)
(* C16.  The concatenation of the yielded chunks.                          *)
(***************************************************************************)
\* C16, as stated: when the vendor stream has yielded at least one item, the
\* chunks the adapter yielded up to the end of the stream have a non-empty
\* concatenation.  (The text goes to the vendor unread: the adapter only
\* logs its first 50 characters.)
C16_NonEmptyWhenVendorYields ==
    (Exhausted /\ items_read /= <<>>) => Concat(yielded) /= <<>>

\* C16, amended: at the end of the stream the concatenation of the chunks the
\* adapter yielded is the concatenation of the byte-valued items of the
\* vendor stream; it is non-empty exactly when the vendor stream yielded at
\* least one non-empty byte-valued item.
C16_ConcatenationOfByteItems ==
    Exhausted =>
        /\ Concat(yielded) = Concat(BytesOf(items_read))
        /\ Concat(yielded) /= <<>> <=>
              \E k \in 1..Len(items_read) :
                  items_read[k].is_bytes /\ items_read[k].data /= <<>>

\* a stream of an empty chunk and a non-byte item ended: nothing to hear
C16_Witness ==
    /\ entry = "stream_tts" /\ result = "exhausted"
    /\ Len(items_read) = 2
    /\ items_read[1].is_bytes /\ items_read[1].data = <<>>
    /\ ~items_read[2].is_bytes
    /\ yielded = << <<>> >>

(***************************************************************************)
(* C19.  A failing playback mechanism.                                     *)
(***************************************************************************)
\* C19, as stated: when a mechanism of _play_audio_locally fails (it does not
\* return), the next mechanism of the order is tried; the function is over
\* only after a mechanism returned or after all four have been tried.
C19_FailureLeadsToNextMechanism ==
    pc = "play_ret" =>
        \/ Last(mech_log).out \in {"ok", "unsupported"}
        \/ Len(mech_log) = 4

(***************************************************************************)
(* C20.  The two computations of the delivery mode.                        *)
(***************************************************************************)
\* C20, as stated: in a speak request the delivery mode speak computed at
\* its start and the delivery mode the adapter computed at the start of
\* stream_text_to_speech are equal.
C20_SpeakAndAdapterAgree ==
    (entry = "speak" /\ AdapterCalled) => (local_playback <=> local_playback_enabled)

(***************************************************************************)
(* C13.  The voice speak passes to stream_tts.                             *)
(***************************************************************************)
\* C13, as stated: the voice speak passes to stream_tts is the voice_id
\* argument when one is given; otherwise the voice_id of the persona, when
\* the lookup gave a persona that has one; otherwise DEFAULT_VOICE_ID.
C13_PerCallVoiceFirst ==
    (entry = "speak" /\ pc = "tts_start") =>
        voiceid = IF voice_id /= NoneVal THEN voice_id
                  ELSE IF persona = "has_voice_id" THEN PERSONA_VOICE_ID
                  ELSE DEFAULT_VOICE_ID

(***************************************************************************)
(* C17.  MR_TTS_PLAY_LOCAL.                                                *)
(***************************************************************************)
\* C17, as stated: the audio of a stream_tts or speak request whose stream
\* has ended is played locally if MR_TTS_PLAY_LOCAL is set to '1', 'true',
\* 'yes' or 'on', and it is not played locally when the variable is not set.
C17_PlayLocalFollowsEnvironment ==
    (Exhausted /\ Concat(yielded) /= <<>>) =>
        /\ env_play_local \in {<<"1">>, <<"t","r","u","e">>, <<"y","e","s">>, <<"o","n">>}
              => plays /= <<>>
        /\ env_play_local = NoneVal => plays = <<>>

(***************************************************************************)
(* C18.  Two overlapping calls on the shared instance.                     *)
(***************************************************************************)
\* C18, as stated: when two stream_text_to_speech calls overlap, neither
\* raises because of the other, and each keeps the mode of its start: a call
\* that started remote (it keeps no buffer) never plays, and a call that
\* started local has every chunk it read in its buffer and, once its stream
\* is exhausted with a non-empty buffer, has played the buffer.
C18_NoHazardFromReuse ==
    /\ raised /= "TypeError"
    /\ o_raised /= "TypeError"
    /\ (entry = "stream_tts" /\ AdapterCalled /\ ~vendor_raised) =>
          IF local_audio_buffer = NoneBuf
          THEN plays = <<>>
          ELSE /\ local_audio_buffer = Concat(BytesOf(items_read))
               /\ (result = "exhausted" /\ local_audio_buffer /= <<>>)
                     => plays /= <<>>
    /\ o_pc /= "idle" =>
          IF o_buffer = NoneBuf
          THEN o_plays = <<>>
          ELSE /\ o_buffer = Concat(o_yielded)
               /\ (o_pc = "done" /\ o_raised = "none") => o_plays = <<o_buffer>>

(***************************************************************************)
(* C21.  No chunk of a speak request is lost.                              *)
(***************************************************************************)
\* C21, as stated: when a speak request has returned after the end of the
\* stream, with no sink call that raised or asked to stop, every non-empty
\* chunk the adapter emitted was forwarded to the sink or is part of the
\* buffer that was handed to _play_audio_locally.
C21_EveryChunkReachesAListener ==
    (/\ entry = "speak" /\ pc = "done" /\ raised = "none"
     /\ \A j \in 1..Len(sink_log) : sink_log[j].out = "go") =>
        \A k \in 1..Len(yielded) :
            yielded[k] /= <<>> =>
                \/ k <= Len(sink_log) /\ sink_log[k].chunk = yielded[k]
                \/ plays /= <<>> /\ plays[1].audio_data = Concat(yielded)

(***************************************************************************)
(* C22.  The format of the chunks speak paces.                             *)
(***************************************************************************)
\* C22, as stated: when a sink call of a speak request has returned (the
\* chunk was forwarded and is paced at 8000 bytes per second), the vendor
\* stream of the request was opened with output format 'ulaw_8000'.
C22_ForwardedChunksAreUlaw ==
    (entry = "speak" /\ \E k \in 1..Len(sink_log) : sink_log[k].out /= "raise") =>
        stream_reqs = << <<"u","l","a","w","_","8","0","0","0">> >>

(***************************************************************************)
(* C23.  A falsy flag from the sink ends the request.                      *)
(***************************************************************************)
\* the last sink call of the request returned a falsy flag
Stopped == sink_log /= <<>> /\ Last(sink_log).out = "stop"

\* C23: once a sink call of a speak request returned a falsy flag, that call
\* is the last sink call of the request, the vendor item that gave its chunk
\* is the last item read, no playback has been started, and the request only
\* sleeps and returns: until it has returned, no step adds a sink call, reads
\* a vendor item, or starts a playback.
C23_NothingAfterStop ==
    /\ [](\A k \in 1..Len(sink_log) : sink_log[k].out = "stop" =>
             /\ k = Len(sink_log)
             /\ entry = "speak"
             /\ pc \in {"pace", "stop_sleep", "done"}
             /\ Len(yielded) = k /\ yielded[k] = sink_log[k].chunk
             /\ Last(items_read) = [is_bytes |-> TRUE, data |-> sink_log[k].chunk]
             /\ BytesOf(items_read) = yielded
             /\ plays = <<>> /\ mech_log = <<>>)
    /\ [][(Stopped /\ pc /= "done") =>
             /\ UNCHANGED <<sink_log, items_read, yielded, stream_reqs, play_vars>>
             /\ pc' \in {"pace", "stop_sleep", "done"}]_vars

\* a request that was stopped at its second chunk has returned, having read
\* two vendor items
C23_Witness ==
    /\ entry = "speak" /\ pc = "done" /\ Stopped
    /\ Len(sink_log) = 2 /\ Len(items_read) = 2
    /\ local_playback_enabled

(***************************************************************************)
(* C24.  speak never raises.                                               *)
(***************************************************************************)
\* C24: a speak request ends in a returned value, None or the warning, never
\* in an exception; when an exception occurred inside it (a missing API key,
\* a failure of the vendor stream, any other) the request has returned None
\* and not the warning; and in remote delivery the chunks emitted before the
\* failure are the chunks of the sink calls made, in order.
C24_SpeakNeverRaises ==
    entry = "speak" =>
        /\ result \in {"pending", "None", WARNING_TEXT}
        /\ result = "pending" <=> pc /= "done"
        /\ raised /= "none" =>
              /\ pc = "done" /\ result = "None"
              /\ ~local_playback =>
                    /\ Len(sink_log) = Len(yielded)
                    /\ \A k \in 1..Len(yielded) : sink_log[k].chunk = yielded[k]

\* the vendor stream failed after two chunks had been forwarded to the sink,
\* and speak returned None
C24_Witness ==
    /\ entry = "speak" /\ pc = "done" /\ ~local_playback
    /\ raised = "StreamingError" /\ result = "None"
    /\ Len(sink_log) = 2 /\ sink_log[1].out = "go" /\ sink_log[2].out = "go"

(***************************************************************************)
(* C27.  One sink call at a time, in the order of the chunks.              *)
(***************************************************************************)
\* C27, as stated: in remote delivery, when speak starts a sink call, every
\* earlier sink call of the request has returned and its pacing sleep has
\* elapsed.
C27_EveryEarlierCallReturnedAndSlept ==
    (entry = "speak" /\ ~local_playback /\ pc = "sink") =>
        /\ \A k \in 1..Len(sink_log) : sink_log[k].out = "go"
        /\ Len(sleeps) = Len(sink_log)

\* C27, amended: in remote delivery speak makes one sink call per emitted
\* chunk, in the order of emission, and a sink call starts only when every
\* earlier one is over: it returned and its pacing sleep elapsed, or it raised
\* (then there is no pacing sleep for it).  A sink call ends only while it is
\* the one in flight, and it is the call for the chunk emitted last.
C27_OneSinkCallAtATime ==
    /\ []((entry = "speak" /\ ~local_playback) =>
            /\ pc = "sink" =>
                  /\ yielded /= <<>> /\ chunk = Last(yielded)
                  /\ Len(sink_log) = Len(yielded) - 1
                  /\ \A k \in 1..Len(sink_log) :
                        /\ sink_log[k].chunk = yielded[k]
                        /\ sink_log[k].out \in {"go", "raise"}
                  /\ sleeps = [k \in 1..Len(PacedChunks) |-> ToWait(PacedChunks[k])]
            /\ pc /= "sink" => Len(sink_log) = Len(yielded))
    /\ [][Len(sink_log') > Len(sink_log) =>
             /\ pc = "sink" /\ pc' /= "sink"
             /\ Front(sink_log') = sink_log
             /\ Last(sink_log').chunk = Last(yielded)
             /\ UNCHANGED <<yielded, items_read, sleeps>>]_vars

\* the third sink call starts after one that raised (no sleep) and one that
\* returned (one pacing sleep)
C27_Witness ==
    /\ entry = "speak" /\ ~local_playback /\ pc = "sink"
    /\ Len(sink_log) = 2
    /\ sink_log[1].out = "raise" /\ sink_log[2].out = "go"
    /\ Len(sleeps) = 1

(***************************************************************************)
(* C28.  The arguments of ffplay.                                          *)
(***************************************************************************)
\* C28: the command ffplay is started with is the fixed options, then the
\* format arguments, then `-i pipe:0`; the format arguments are those of
\* mulaw at 8000 Hz mono when the tag, in lower case, contains 'ulaw';
\* otherwise those of mp3 when it contains 'mp3'; otherwise, when it contains
\* 'pcm', those of s16le mono at 16000 when the tag names 16000, else at 44100
\* when it names 44100, else at 24000 when it names 24000, else at 22050; and
\* none at all for any other tag.
C28_FfplayArguments ==
    \A j \in 1..Len(mech_log) :
        mech_log[j].mech = "ffplay" =>
            LET cmd == mech_log[j].cmd
                tag == Lower(play_format)
                ulaw == Contains(<<"u","l","a","w">>, tag)
                mp3 == Contains(<<"m","p","3">>, tag)
                pcm == Contains(<<"p","c","m">>, tag)
                r16 == Contains(<<"1","6","0","0","0">>, tag)
                r44 == Contains(<<"4","4","1","0","0">>, tag)
                r24 == Contains(<<"2","4","0","0","0">>, tag)
                args == SubSeq(cmd, 6, Len(cmd) - 2)
            IN  /\ Len(cmd) >= 7
                /\ SubSeq(cmd, 1, 5)
                      = <<"ffplay", "-nodisp", "-autoexit", "-loglevel", "quiet">>
                /\ SubSeq(cmd, Len(cmd) - 1, Len(cmd)) = <<"-i", "pipe:0">>
                /\ ulaw => args = <<"-f", "mulaw", "-ar", "8000", "-ac", "1">>
                /\ (~ulaw /\ mp3) => args = <<"-f", "mp3">>
                /\ (~ulaw /\ ~mp3 /\ pcm) =>
                      /\ Len(args) = 6
                      /\ <<args[1], args[2], args[3], args[5], args[6]>>
                            = <<"-f", "s16le", "-ar", "-ac", "1">>
                      /\ r16 => args[4] = "16000"
                      /\ (~r16 /\ r44) => args[4] = "44100"
                      /\ (~r16 /\ ~r44 /\ r24) => args[4] = "24000"
                      /\ (~r16 /\ ~r44 /\ ~r24) => args[4] = "22050"
                /\ (~ulaw /\ ~mp3 /\ ~pcm) => args = <<>>

\* ffplay was started for the tag 'mp3_ulaw', with the arguments of mulaw
C28_Witness ==
    /\ play_format = MP3_ULAW
    /\ Len(mech_log) >= 2
    /\ mech_log[2].mech = "ffplay"
    /\ mech_log[2].cmd = <<"ffplay", "-nodisp", "-autoexit", "-loglevel", "quiet",
                           "-f", "mulaw", "-ar", "8000", "-ac", "1", "-i", "pipe:0">>

(***************************************************************************)
(* C29.  The global adapter instance.                                      *)
(***************************************************************************)
\* C29: at most one ElevenLabsStreamer is ever constructed by get_streamer;
\* the global holds an instance exactly when one was constructed; while it
\* holds one, no step constructs another or changes the global; and a
\* get_streamer call that finds the global unset attempts a construction:
\* with an API key it sets the global to the new instance, without one it
\* raises ValueError and leaves the global unset, whatever earlier calls did.
C29_OneInstance ==
    /\ [](/\ constructed <= 1
          /\ streamer = "instance" <=> constructed = 1
          /\ streamer = "None" <=> constructed = 0)
    /\ [][streamer = "instance" =>
             streamer' = "instance" /\ constructed' = constructed]_vars
    /\ [][(pc = "tts_start" /\ streamer = "None") =>
             IF Truthy(env_key)
             THEN streamer' = "instance" /\ constructed' = 1 /\ raised' = "none"
             ELSE /\ streamer' = "None" /\ constructed' = 0
                  /\ raised' = "ValueError" /\ pc' = "done"]_vars

\* a later get_streamer call has returned the instance constructed earlier:
\* its flag is not what a constructor run by this call would have set
C29_Witness ==
    /\ pc = "adapter_start"
    /\ streamer = "instance" /\ constructed = 1
    /\ local_playback_enabled /= GetLocalPlaybackEnabled(functions)

(***************************************************************************)
(* C26.  The voice settings and the vendor request.                        *)
(***************************************************************************)
\* C26, as stated: the vendor request of a stream_text_to_speech call holds
\* the stability, similarity_boost and speed of the call, and a call that
\* differs from it in exactly one of the three values (same format, same
\* delivery mode) opens the vendor stream with a different request.
C26_SettingsInTheRequest ==
    \A k \in 1..Len(stream_calls) :
        LET settings == {"stability", "similarity_boost", "speed"}
        IN  /\ \A n \in settings :
                  /\ n \in DOMAIN stream_calls[k]
                  /\ stream_calls[k][n] = voice_settings[n]
            /\ \A vs \in SettingsSet :
                  Cardinality({n \in settings : vs[n] /= voice_settings[n]}) = 1
                      => StreamRequest(output_format, vs) /= stream_calls[k]

(***************************************************************************)
(* C25.  speak terminates.                                                 *)
(***************************************************************************)
\* C25: every speak request that has started returns at some time, in local
\* and in remote delivery, whether its sink calls return a truthy flag, return
\* a falsy flag or raise, whether or not the vendor stream or the construction
\* of the adapter fails.
C25_SpeakReturns ==
    (entry = "speak" /\ pc /= "done") ~> (entry = "speak" /\ pc = "done")

\* a request in remote delivery has returned after a sink call that raised
\* and one that asked to stop
C25_Witness ==
    /\ entry = "speak" /\ pc = "done" /\ ~local_playback
    /\ Len(sink_log) = 2
    /\ sink_log[1].out = "raise" /\ sink_log[2].out = "stop"
    /\ result = WARNING_TEXT

====
